---- MODULE Spec2Model ----
(***************************************************************************)
(* faux-rag: document upload / delete / chat handlers (app/api), the text  *)
(* chunker (app/services/document_processor.py) and the vector store       *)
(* service (app/services/vector_store.py).                                  *)
(*                                                                         *)
(* Handlers are `async def` coroutines whose only await (file.read())      *)
(* precedes every side effect, so on one event loop each handler runs to   *)
(* completion: one action per handler.  External collaborators (document   *)
(* extraction, embedding model, Pinecone index, Gemini) may raise; whether *)
(* they do is an input of the action.                                      *)
(***************************************************************************)
EXTENDS Integers, Sequences, FiniteSets, TLC

VARIABLES
  files,      \* UPLOAD_DIR: set of persisted files [id, ext], named f"{id}{ext}"
  index,      \* the Pinecone index: set of entries
  nextId,     \* number of uuid4() values drawn so far, plus one
  produced,   \* history: file_id -> number of chunks chunk_text produced for it
  last,       \* the last request handled: request, response, gateway calls made
  c_text, c_size, c_overlap, c_strip, c_out,  \* a stand-alone call of chunk_text
  u_in, u_out,   \* a stand-alone call of upsert_chunks: arguments, result
  job,        \* uploads handled by concurrent workers: file_id -> progress
  dels        \* deletes handled by concurrent workers: file_id -> progress

vars == <<files, index, nextId, produced, last, c_text, c_size, c_overlap, c_strip, c_out,
          u_in, u_out, job, dels>>

----------------------------------------------------------------------------
\* Bounds of the model
MaxDocs == 2
MaxPad == 3
MaxBatches == 2

\* Program constants
MAX_FILE_SIZE_MB == 15
BYTES_PER_MB == 1048576
CHUNK_SIZE == 1000
CHUNK_OVERLAP == 200
MIN_CHUNK_LEN == 50
batch_size == 100
DEFAULT_TOP_K == 5
ALLOWED_EXTENSIONS == {".pdf", ".txt", ".docx"}

FileIds == 1..MaxDocs

----------------------------------------------------------------------------
\* Strings are sequences of one-character strings.
Whitespace == {" ", "\n", "\t"}

Rep(c, n) == [i \in 1..n |-> c]

RECURSIVE FirstNonSpace(_, _)
FirstNonSpace(s, i) ==
  IF i > Len(s) THEN i
  ELSE IF s[i] \in Whitespace THEN FirstNonSpace(s, i + 1) ELSE i

RECURSIVE LastNonSpace(_, _)
LastNonSpace(s, j) ==
  IF j < 1 THEN j
  ELSE IF s[j] \in Whitespace THEN LastNonSpace(s, j - 1) ELSE j

\* str.strip()
strip(s) ==
  LET a == FirstNonSpace(s, 1)
  IN  IF a > Len(s) THEN <<>> ELSE SubSeq(s, a, LastNonSpace(s, Len(s)))

\* Python slice s[a:b] for 0 <= a
Slice(s, a, b) == SubSeq(s, a + 1, IF b > Len(s) THEN Len(s) ELSE b)

Range(s) == {s[i] : i \in 1..Len(s)}

Max2(a, b) == IF a > b THEN a ELSE b

----------------------------------------------------------------------------
\* Path(filename).suffix for the file names the model uploads
suffix(filename) ==
  CASE filename = "report.pdf" -> ".pdf"
    [] filename = "SCAN.PDF"   -> ".PDF"
    [] filename = "notes.txt"  -> ".txt"
    [] filename = "cv.docx"    -> ".docx"
    [] filename = "setup.exe"  -> ".exe"
    [] filename = "README"     -> ""
    [] OTHER                   -> ""

\* str.lower() on those suffixes
lower(s) == IF s = ".PDF" THEN ".pdf" ELSE s

----------------------------------------------------------------------------
\* document_processor.py

\* RecursiveCharacterTextSplitter(chunk_size, chunk_overlap, ...): the library
\* constructor rejects inconsistent parameters.
splitter_raises(chunk_size, chunk_overlap) ==
  chunk_size <= 0 \/ chunk_overlap < 0 \/ chunk_overlap > chunk_size

\* Consecutive windows of at most `size` characters; each starts `step` after
\* the previous one.
RECURSIVE windows(_, _, _, _)
windows(text, start, size, step) ==
  IF start >= Len(text) THEN <<>>
  ELSE <<Slice(text, start, start + size)>> \o
       (IF start + size >= Len(text) THEN <<>>
        ELSE windows(text, start + step, size, step))

\* splitter.split_text(text): the library is not part of the repository.  Its
\* pieces are modelled as the character-boundary split (the last separator,
\* ""), overlapping by chunk_overlap; strip_whitespace tells whether the
\* library trims each piece and drops the empty ones.
split_text(text, chunk_size, chunk_overlap, strip_whitespace) ==
  LET pieces == windows(text, 0, chunk_size, Max2(1, chunk_size - chunk_overlap))
      NonEmpty(p) == Len(p) > 0
  IN  IF strip_whitespace
      THEN SelectSeq([i \in 1..Len(pieces) |-> strip(pieces[i])], NonEmpty)
      ELSE pieces

\* [chunk for chunk in chunks if len(chunk.strip()) > 50]
keep_chunks_nostrip(chunks) ==
  LET Keep(c) == Len(c) > MIN_CHUNK_LEN
  IN  SelectSeq(chunks, Keep)

keep_chunks(chunks) ==
  LET Keep(c) == Len(strip(c)) > MIN_CHUNK_LEN
  IN  SelectSeq(chunks, Keep)

chunk_text(text, chunk_size, chunk_overlap, strip_whitespace) ==
  IF Len(text) = 0 \/ Len(strip(text)) = 0
  THEN [raised |-> FALSE, chunks |-> <<>>]
  ELSE IF splitter_raises(chunk_size, chunk_overlap)
  THEN [raised |-> TRUE, chunks |-> <<>>]
  ELSE [raised |-> FALSE,
        chunks |-> keep_chunks(split_text(text, chunk_size, chunk_overlap,
                                          strip_whitespace))]

\* process_document(file_path): dispatch on the lower-cased suffix; the
\* extraction library may fail on the file (readable = FALSE).
process_document(file_path, content, readable) ==
  LET file_type == lower(file_path.ext)
  IN  IF file_type \in {".pdf", ".docx", ".txt"}
      THEN [raised |-> ~readable, text |-> IF readable THEN content ELSE <<>>]
      ELSE [raised |-> TRUE, text |-> <<>>]

----------------------------------------------------------------------------
\* embeddings.py: the model maps a text to a vector; what matters here is
\* that equal texts get equal vectors.
encode(text) == Len(text) % 2

generate_embeddings(texts, model_ok) ==
  IF Len(texts) = 0 THEN [raised |-> FALSE, vectors |-> <<>>]
  ELSE IF ~model_ok THEN [raised |-> TRUE, vectors |-> <<>>]
  ELSE [raised |-> FALSE, vectors |-> [i \in 1..Len(texts) |-> encode(texts[i])]]

generate_single_embedding(text, model_ok) ==
  IF ~model_ok THEN [raised |-> TRUE, vector |-> 0]
  ELSE [raised |-> FALSE, vector |-> encode(text)]

----------------------------------------------------------------------------
\* vector_store.py.  An index entry is the triple (id, values, metadata); the
\* id f"{file_id}_chunk_{idx}" is the pair <<file_id, idx>>.  The chunk text
\* preview kept in the metadata is represented by its text_length only.

\* self.index.upsert(vectors=batch): entries are written under their ids
index_upsert(ix, batch) ==
  {e \in ix : \A i \in 1..Len(batch) : batch[i].id # e.id} \cup Range(batch)

\* for i in range(0, len(vectors), batch_size): ... ; the gateway call of
\* batch number fail_at (1-based; 0 = none) raises.
RECURSIVE upsert_batches_slice_off_by_one(_, _, _, _, _, _)
upsert_batches_slice_off_by_one(ix, vectors, i, sent, total_upserted, fail_at) ==
  IF i >= Len(vectors)
  THEN [raised |-> FALSE, index |-> ix, batches |-> sent, calls |-> Len(sent),
        total |-> total_upserted]
  ELSE LET batch == Slice(vectors, i, i + batch_size + 1)
       IN  IF Len(sent) + 1 = fail_at
           THEN [raised |-> TRUE, index |-> ix, batches |-> sent,
                 calls |-> Len(sent) + 1, total |-> total_upserted]
           ELSE upsert_batches_slice_off_by_one(
                  index_upsert(ix, batch), vectors, i + batch_size,
                  Append(sent, batch), total_upserted + Len(batch), fail_at)

RECURSIVE upsert_batches(_, _, _, _, _, _)
upsert_batches(ix, vectors, i, sent, total_upserted, fail_at) ==
  IF i >= Len(vectors)
  THEN [raised |-> FALSE, index |-> ix, batches |-> sent, calls |-> Len(sent),
        total |-> total_upserted]
  ELSE LET batch == Slice(vectors, i, i + batch_size)
       IN  IF Len(sent) + 1 = fail_at
           THEN [raised |-> TRUE, index |-> ix, batches |-> sent,
                 calls |-> Len(sent) + 1, total |-> total_upserted]
           ELSE upsert_batches(index_upsert(ix, batch), vectors, i + batch_size,
                               Append(sent, batch), total_upserted + Len(batch),
                               fail_at)

upsert_chunks(ix, file_id, filename, chunks, embeddings, fail_at) ==
  IF Len(chunks) # Len(embeddings)
  THEN [raised |-> TRUE, index |-> ix, batches |-> <<>>, calls |-> 0, total |-> 0]
  ELSE LET vectors ==
             [i \in 1..Len(chunks) |->
                [id       |-> <<file_id, i - 1>>,
                 values   |-> embeddings[i],
                 metadata |-> [file_id     |-> file_id,
                               filename    |-> filename,
                               chunk_index |-> i - 1,
                               text_length |-> Len(chunks[i])]]]
       IN  upsert_batches(ix, vectors, 0, <<>>, 0, fail_at)

\* filter_dict: None, or {"file_id": {"$in": ids}}
NoFilter == [some |-> FALSE, ids |-> <<>>]
InFilter(ids) == [some |-> TRUE, ids |-> ids]

Matches(e, filter_dict) == filter_dict.some => e.metadata.file_id \in Range(filter_dict.ids)

\* similarity of a query vector and a stored vector
score(q, v) == IF q = v THEN 1 ELSE 0

\* e ranks before o: higher score first, ties in index order
Before(q, e, o) ==
  \/ score(q, e.values) > score(q, o.values)
  \/ /\ score(q, e.values) = score(q, o.values)
     /\ \/ e.id[1] < o.id[1]
        \/ e.id[1] = o.id[1] /\ e.id[2] <= o.id[2]

RECURSIVE nearest(_, _, _)
nearest(cand, q, k) ==
  IF k <= 0 \/ cand = {} THEN <<>>
  ELSE LET best == CHOOSE e \in cand : \A o \in cand : Before(q, e, o)
       IN  <<best>> \o nearest(cand \ {best}, q, k - 1)

\* VectorStore.search -> self.index.query(vector, top_k, filter): the top_k
\* nearest entries that satisfy the filter; the gateway call may raise (for
\* any request, a top_k below 1 included).
search(ix, query_embedding, top_k, filter_dict, index_ok) ==
  IF ~index_ok THEN [raised |-> TRUE, matches |-> <<>>]
  ELSE [raised |-> FALSE,
        matches |-> nearest({e \in ix : Matches(e, filter_dict)},
                            query_embedding, top_k)]

\* VectorStore.delete_by_file_id: index.delete(filter={"file_id": file_id});
\* an exception of the gateway is caught and reported as False.
delete_by_file_id(ix, file_id, index_ok) ==
  IF index_ok
  THEN [ok |-> TRUE,  index |-> {e \in ix : e.metadata.file_id # file_id}]
  ELSE [ok |-> FALSE, index |-> ix]

----------------------------------------------------------------------------
\* a file whose stem is d is in the directory fs
HasFileIn(fs, d) == \E f \in fs : f.id = d

----------------------------------------------------------------------------
\* Gateway calls made while handling one request
NoCalls == [save |-> 0, extract |-> 0, embed |-> 0, upsert |-> 0, unlink |-> 0,
            delete |-> 0, search |-> <<>>, llm |-> 0]

----------------------------------------------------------------------------
\* api/upload.py

\* validate_file: 0 when the file passes, else the status of the HTTPException
validate_file(filename) ==
  IF lower(suffix(filename)) \notin ALLOWED_EXTENSIONS THEN 400
  ELSE IF filename = "" THEN 400
  ELSE 0

UploadResult(status, fs, ix, file_id, calls, num_chunks, vectors_stored) ==
  [status |-> status, files |-> fs, index |-> ix, file_id |-> file_id,
   calls |-> calls, num_chunks |-> num_chunks, vectors_stored |-> vectors_stored]

\* except Exception: file_path.unlink(); raise HTTPException(500)
upload_except_keep_file(fs, ix, file_id, file_path, calls, num_chunks) ==
  UploadResult(500, fs, ix, file_id, calls, num_chunks, 0)

upload_except(fs, ix, file_id, file_path, calls, num_chunks) ==
  UploadResult(500, fs \ {file_path}, ix, file_id,
               [calls EXCEPT !.unlink = 1], num_chunks, 0)

\* the try block; fs already holds the saved file
upload_process(fs, ix, file_id, file, env) ==
  LET file_path == [id |-> file_id, ext |-> suffix(file.filename)]
      c1 == [NoCalls EXCEPT !.save = 1, !.extract = 1]
      extracted == process_document(file_path, file.content, env.readable)
      ch == chunk_text(extracted.text, CHUNK_SIZE, CHUNK_OVERLAP, TRUE)
      n  == Len(ch.chunks)
      c2 == [c1 EXCEPT !.embed = 1]
      emb == generate_embeddings(ch.chunks, env.embed_ok)
      up == upsert_chunks(ix, file_id, file.filename, ch.chunks, emb.vectors,
                          env.upsert_fail)
      c3 == [c2 EXCEPT !.upsert = up.calls]
  IN  IF extracted.raised THEN upload_except(fs, ix, file_id, file_path, c1, 0)
      ELSE IF Len(extracted.text) = 0 \/ Len(strip(extracted.text)) = 0
      THEN upload_except(fs, ix, file_id, file_path, c1, 0)
      ELSE IF ch.raised \/ n = 0 THEN upload_except(fs, ix, file_id, file_path, c1, 0)
      ELSE IF emb.raised THEN upload_except(fs, ix, file_id, file_path, c2, n)
      ELSE IF up.raised THEN upload_except(fs, up.index, file_id, file_path, c3, n)
      ELSE UploadResult(200, fs, up.index, file_id, c3, n, up.total)

\* file_id = uuid4(); open(file_path, "wb").write(contents); then the try block
upload_save(fs, ix, file_id, file, env) ==
  upload_process(fs \cup {[id |-> file_id, ext |-> suffix(file.filename)]},
                 ix, file_id, file, env)

\* len(contents) / (1024 * 1024) > MAX_FILE_SIZE_MB
too_large(size) == size > MAX_FILE_SIZE_MB * BYTES_PER_MB

upload_size_check_after_save(fs, ix, file_id, file, env) ==
  IF too_large(file.size)
  THEN UploadResult(413, fs \cup {[id |-> file_id, ext |-> suffix(file.filename)]},
                    ix, file_id, [NoCalls EXCEPT !.save = 1], 0, 0)
  ELSE upload_save(fs, ix, file_id, file, env)

upload_size_check(fs, ix, file_id, file, env) ==
  IF too_large(file.size)
  THEN UploadResult(413, fs, ix, 0, NoCalls, 0, 0)
  ELSE upload_save(fs, ix, file_id, file, env)

upload_file(fs, ix, file_id, file, env) ==
  LET v == validate_file(file.filename)
  IN  IF v # 0 THEN UploadResult(v, fs, ix, 0, NoCalls, 0, 0)
      ELSE upload_size_check(fs, ix, file_id, file, env)

\* delete_file: unlink the first file whose stem is file_id, delete its
\* vectors (the result of delete_by_file_id is not looked at), break.
delete_file_always_index(fs, ix, file_id, index_ok) ==
  LET found == {f \in fs : f.id = file_id}
      d == delete_by_file_id(ix, file_id, index_ok)
  IN  [status |-> IF found = {} THEN 404 ELSE 200,
       files |-> fs \ found, index |-> d.index,
       calls |-> [NoCalls EXCEPT !.unlink = Cardinality(found), !.delete = 1]]

delete_file(fs, ix, file_id, index_ok) ==
  LET found == {f \in fs : f.id = file_id}
  IN  IF found = {}
      THEN [status |-> 404, files |-> fs, index |-> ix, calls |-> NoCalls]
      ELSE LET file_path == CHOOSE f \in found : TRUE
               d == delete_by_file_id(ix, file_id, index_ok)
           IN  [status |-> 200, files |-> fs \ {file_path}, index |-> d.index,
                calls |-> [NoCalls EXCEPT !.unlink = 1, !.delete = 1]]

----------------------------------------------------------------------------
\* api/chat.py

NO_INFO == "I couldn't find any relevant information in the uploaded documents to answer your question."

ChatResult(status, reply, sources, calls, num_matches) ==
  [status |-> status, reply |-> reply, sources |-> sources,
   num_sources |-> Len(sources), calls |-> calls, num_matches |-> num_matches]

\* One Source per match; file_id is not part of the response, it records the
\* document the match belongs to.
SourcesOf(matches, q) ==
  [i \in 1..Len(matches) |->
     [filename         |-> matches[i].metadata.filename,
      chunk_index      |-> matches[i].metadata.chunk_index,
      similarity_score |-> score(q, matches[i].values),
      file_id          |-> matches[i].metadata.file_id]]

\* from `if not search_results.matches` to the end of the handler
chat_answer_always_llm(request, q, matches, calls, llm_ok) ==
  IF ~llm_ok
  THEN ChatResult(500, "", <<>>, [calls EXCEPT !.llm = 1], Len(matches))
  ELSE ChatResult(200, "llm_response", SourcesOf(matches, q),
                  [calls EXCEPT !.llm = 1], Len(matches))

chat_answer(request, q, matches, calls, llm_ok) ==
  IF Len(matches) = 0
  THEN ChatResult(200, NO_INFO, <<>>, calls, 0)
  ELSE IF ~llm_ok
  THEN ChatResult(500, "", <<>>, [calls EXCEPT !.llm = 1], Len(matches))
  ELSE ChatResult(200, "llm_response", SourcesOf(matches, q),
                  [calls EXCEPT !.llm = 1], Len(matches))

\* query embedding, filter_dict, vector_store.search
chat_retrieve(ix, request, env) ==
  LET q == generate_single_embedding(request.message, env.embed_ok)
      filter_dict == IF request.file_ids.some /\ Len(request.file_ids.ids) > 0
                     THEN InFilter(request.file_ids.ids)
                     ELSE NoFilter
      res == search(ix, q.vector, request.top_k, filter_dict, env.index_ok)
      c1 == [NoCalls EXCEPT !.embed = 1]
      c2 == [c1 EXCEPT !.search = <<[top_k |-> request.top_k,
                                     filter_dict |-> filter_dict]>>]
  IN  IF q.raised THEN ChatResult(500, "", <<>>, c1, -1)
      ELSE IF res.raised THEN ChatResult(500, "", <<>>, c2, -1)
      ELSE chat_answer(request, q.vector, res.matches, c2, env.llm_ok)

\* if not request.message or not request.message.strip(): 400
chat_no_strip(ix, request, env) ==
  IF Len(request.message) = 0
  THEN ChatResult(400, "", <<>>, NoCalls, -1)
  ELSE chat_retrieve(ix, request, env)

chat(ix, request, env) ==
  IF Len(request.message) = 0 \/ Len(strip(request.message)) = 0
  THEN ChatResult(400, "", <<>>, NoCalls, -1)
  ELSE chat_retrieve(ix, request, env)

----------------------------------------------------------------------------
\* Inputs

SizeOk  == MAX_FILE_SIZE_MB * BYTES_PER_MB
SizeBig == MAX_FILE_SIZE_MB * BYTES_PER_MB + 1

\* what extraction yields for an uploaded file
EmptyText == <<>>
BlankText == <<" ", "\n", " ">>
ShortText == Rep("a", MIN_CHUNK_LEN)
ParaText  == <<" ", " ">> \o Rep("a", MIN_CHUNK_LEN + 10) \o <<"\n">>
LongText  == Rep("a", CHUNK_SIZE + 100)

File(filename, size, content) ==
  [filename |-> filename, size |-> size, content |-> content]

\* which collaborator fails during an upload (upsert_fail: number of the
\* index.upsert call that raises, 0 = none)
AllFine      == [readable |-> TRUE,  embed_ok |-> TRUE,  upsert_fail |-> 0]
Unreadable   == [readable |-> FALSE, embed_ok |-> TRUE,  upsert_fail |-> 0]
EmbedFails   == [readable |-> TRUE,  embed_ok |-> FALSE, upsert_fail |-> 0]
UpsertFails  == [readable |-> TRUE,  embed_ok |-> TRUE,  upsert_fail |-> 1]

UploadCase(file, env) == [file |-> file, env |-> env]

UploadCases ==
  { UploadCase(File("setup.exe", SizeOk,  ParaText), AllFine),
    UploadCase(File("setup.exe", SizeBig, ParaText), AllFine),
    UploadCase(File("README",    SizeOk,  ParaText), AllFine),
    UploadCase(File("",          SizeOk,  ParaText), AllFine),
    UploadCase(File("notes.txt", SizeBig, ParaText), AllFine),
    UploadCase(File("notes.txt", SizeOk,  ParaText), AllFine) }
  \cup { UploadCase(File("SCAN.PDF", SizeOk, c), AllFine) :
           c \in {EmptyText, BlankText, ShortText, ParaText, LongText} }
  \cup { UploadCase(File("SCAN.PDF", SizeOk, LongText), env) :
           env \in {Unreadable, EmbedFails, UpsertFails} }

None == [some |-> FALSE, ids |-> <<>>]
Some(ids) == [some |-> TRUE, ids |-> ids]

Request(message, file_ids, top_k) ==
  [message |-> message, file_ids |-> file_ids, top_k |-> top_k]

Question == <<" ", "h", "i">>

ChatRequests ==
  { Request(<<>>, None, DEFAULT_TOP_K),
    Request(<<" ", "\n">>, None, DEFAULT_TOP_K),
    Request(<<" ", "\n">>, Some(<<1>>), 1),
    Request(Question, None, DEFAULT_TOP_K),
    Request(Question, None, 1),
    Request(Question, None, 0),
    Request(Question, None, -1),
    Request(Question, Some(<<>>), DEFAULT_TOP_K) }
  \cup { Request(Question, Some(<<d>>), DEFAULT_TOP_K) : d \in FileIds }

\* which gateway fails during a chat
ChatFine       == [embed_ok |-> TRUE,  index_ok |-> TRUE,  llm_ok |-> TRUE]
QueryEmbedFails == [embed_ok |-> FALSE, index_ok |-> TRUE,  llm_ok |-> TRUE]
SearchFails    == [embed_ok |-> TRUE,  index_ok |-> FALSE, llm_ok |-> TRUE]
LlmFails       == [embed_ok |-> TRUE,  index_ok |-> TRUE,  llm_ok |-> FALSE]

ChatCase(request, env) == [request |-> request, env |-> env]

ChatCases ==
  { ChatCase(r, ChatFine) : r \in ChatRequests }
  \cup { ChatCase(Request(Question, None, DEFAULT_TOP_K), env) :
           env \in {QueryEmbedFails, SearchFails, LlmFails} }
  \cup { ChatCase(Request(Question, None, k), SearchFails) : k \in {0, -1} }

----------------------------------------------------------------------------
\* State machine

NoRequest ==
  [op |-> "none", status |-> 0, req |-> [none |-> TRUE], file_id |-> 0,
   reply |-> "", sources |-> <<>>, num_sources |-> 0, num_matches |-> -1,
   num_chunks |-> 0, vectors_stored |-> 0, calls |-> NoCalls]

NoChunkCall == [done |-> FALSE, raised |-> FALSE, chunks |-> <<>>]

NoUpsertArgs == [file_id |-> 1, n_chunks |-> 0, n_embeddings |-> 0, fail_at |-> 0]
NoUpsertCall == [done |-> FALSE, raised |-> FALSE, batches |-> <<>>, calls |-> 0,
                 total |-> 0, index |-> {}]

NoJob == [pc |-> "idle", status |-> 0, unhandled |-> FALSE,
          file |-> [filename |-> "", size |-> 0, content |-> <<>>],
          env |-> [readable |-> TRUE, embed_ok |-> TRUE, upsert_fail |-> 0],
          chunks |-> <<>>, embeddings |-> <<>>]
NoDelete == [pc |-> "idle", status |-> 0, unhandled |-> FALSE]

CallsIdleInit ==
  /\ u_in = NoUpsertArgs /\ u_out = NoUpsertCall
  /\ job = [d \in FileIds |-> NoJob]
  /\ dels = [d \in FileIds |-> NoDelete]

CallsIdle == UNCHANGED <<u_in, u_out, job, dels>>

Init ==
  /\ files = {}
  /\ index = {}
  /\ nextId = 1
  /\ produced = [d \in FileIds |-> 0]
  /\ last = NoRequest
  /\ c_text = <<>> /\ c_size = CHUNK_SIZE /\ c_overlap = CHUNK_OVERLAP
  /\ c_strip = TRUE /\ c_out = NoChunkCall
  /\ CallsIdleInit

ChunkIdle == UNCHANGED <<c_text, c_size, c_overlap, c_strip, c_out>>

Upload ==
  \E case \in UploadCases :
    LET file == case.file
        r == upload_file(files, index, nextId, file, case.env)
    IN  /\ validate_file(file.filename) # 0 \/ too_large(file.size) \/ nextId <= MaxDocs
        /\ files' = r.files
        /\ index' = r.index
        /\ nextId' = IF r.file_id # 0 THEN nextId + 1 ELSE nextId
        /\ produced' = IF r.file_id # 0
                       THEN [produced EXCEPT ![r.file_id] = r.num_chunks]
                       ELSE produced
        /\ last' = [NoRequest EXCEPT
                      !.op = "upload", !.status = r.status,
                      !.req = [filename |-> file.filename, size |-> file.size],
                      !.file_id = r.file_id, !.num_chunks = r.num_chunks,
                      !.vectors_stored = r.vectors_stored, !.calls = r.calls]
        /\ ChunkIdle
        /\ CallsIdle

Delete ==
  \E file_id \in FileIds, index_ok \in BOOLEAN :
    LET r == delete_file(files, index, file_id, index_ok)
    IN  /\ files' = r.files
        /\ index' = r.index
        /\ last' = [NoRequest EXCEPT
                      !.op = "delete", !.status = r.status,
                      !.req = [file_id |-> file_id], !.file_id = file_id,
                      !.calls = r.calls]
        /\ UNCHANGED <<nextId, produced>>
        /\ ChunkIdle
        /\ CallsIdle

Chat ==
  \E case \in ChatCases :
    LET request == case.request
        r == chat(index, request, case.env)
    IN  /\ last' = [NoRequest EXCEPT
                      !.op = "chat", !.status = r.status, !.req = request,
                      !.reply = r.reply, !.sources = r.sources,
                      !.num_sources = r.num_sources,
                      !.num_matches = r.num_matches, !.calls = r.calls]
        /\ UNCHANGED <<files, index, nextId, produced>>
        /\ ChunkIdle
        /\ CallsIdle

Next == Upload \/ Delete \/ Chat

Spec == Init /\ [][Next]_vars

----------------------------------------------------------------------------
\* chunk_text called on its own, for every text, chunk size and overlap below

Pad(n) == Rep(" ", n)

ChunkTexts ==
  { Pad(l) \o Rep("a", n) \o Pad(r) :
      l \in {0, MaxPad},
      n \in {0, 1, MIN_CHUNK_LEN - 1, MIN_CHUNK_LEN, MIN_CHUNK_LEN + 1,
             2 * MIN_CHUNK_LEN + 5},
      r \in {0, 1} }
  \cup { Rep("a", MIN_CHUNK_LEN + 1) \o <<"\n", "\n">> \o Rep("b", MIN_CHUNK_LEN - 1),
         <<"\t", "\n">> }

ChunkSizes == {0, MIN_CHUNK_LEN - 10, MIN_CHUNK_LEN + 2, MIN_CHUNK_LEN + 10, CHUNK_SIZE}

ChunkOverlaps == {0, 5, MIN_CHUNK_LEN + 2, CHUNK_OVERLAP}

InitChunk ==
  /\ files = {}
  /\ index = {}
  /\ nextId = 1
  /\ produced = [d \in FileIds |-> 0]
  /\ last = NoRequest
  /\ c_text \in ChunkTexts
  /\ c_size \in ChunkSizes
  /\ c_overlap \in ChunkOverlaps
  /\ c_strip \in BOOLEAN
  /\ c_out = NoChunkCall
  /\ CallsIdleInit

ChunkCall ==
  /\ ~c_out.done
  /\ LET r == chunk_text(c_text, c_size, c_overlap, c_strip)
     IN  c_out' = [done |-> TRUE, raised |-> r.raised, chunks |-> r.chunks]
  /\ UNCHANGED <<files, index, nextId, produced, last, c_text, c_size, c_overlap, c_strip>>
  /\ CallsIdle

NextChunk == ChunkCall

SpecChunk == InitChunk /\ [][NextChunk]_vars

----------------------------------------------------------------------------
\* upsert_chunks called on its own: n chunks, m embeddings, and the number of
\* the index.upsert call that raises (0 = none)

\* chunk i (0-based) of a document: texts of differing lengths
ChunkNo(i) == Rep("a", MIN_CHUNK_LEN + 1 + (i % 3))

ChunkList(n) == [i \in 1..n |-> ChunkNo(i - 1)]

ChunkCounts ==
  {0, 1, 2, batch_size - 1, batch_size, batch_size + 1}
  \cup {k * batch_size + d : k \in 2..MaxBatches, d \in {-1, 0, 1}}

UpsertArgs ==
  [file_id : FileIds, n_chunks : ChunkCounts, n_embeddings : ChunkCounts,
   fail_at : 0..(MaxBatches + 1)]

InitUpsert ==
  /\ files = {}
  /\ index = {}
  /\ nextId = 1
  /\ produced = [d \in FileIds |-> 0]
  /\ last = NoRequest
  /\ c_text = <<>> /\ c_size = CHUNK_SIZE /\ c_overlap = CHUNK_OVERLAP
  /\ c_strip = TRUE /\ c_out = NoChunkCall
  /\ u_in \in {a \in UpsertArgs :
                 \/ a.n_embeddings = a.n_chunks
                 \/ a.fail_at = 0 /\ a.n_embeddings \in {a.n_chunks - 1, a.n_chunks + 1}}
  /\ u_out = NoUpsertCall
  /\ job = [d \in FileIds |-> NoJob]
  /\ dels = [d \in FileIds |-> NoDelete]

UpsertCall ==
  /\ ~u_out.done
  /\ LET chunks == ChunkList(u_in.n_chunks)
         embeddings == [i \in 1..u_in.n_embeddings |-> encode(ChunkNo(i - 1))]
         r == upsert_chunks(index, u_in.file_id, "notes.txt", chunks, embeddings,
                            u_in.fail_at)
     IN  /\ u_out' = [done |-> TRUE, raised |-> r.raised, batches |-> r.batches,
                      calls |-> r.calls, total |-> r.total, index |-> r.index]
         /\ index' = r.index
  /\ UNCHANGED <<files, nextId, produced, last, u_in, job, dels>>
  /\ ChunkIdle

NextUpsert == UpsertCall

SpecUpsert == InitUpsert /\ [][NextUpsert]_vars

----------------------------------------------------------------------------
\* Upload and delete requests handled by several workers that share
\* UPLOAD_DIR and the index: a handler's file-system and gateway calls
\* interleave with those of the other handlers.  Gateway calls of a delete
\* succeed here, so that what is observed is due to the interleaving alone.

FilePath(d, file) == [id |-> d, ext |-> suffix(file.filename)]

\* the accepted uploads among UploadCases
AcceptedCases ==
  {c \in UploadCases : validate_file(c.file.filename) = 0 /\ ~too_large(c.file.size)}

\* validate, size check, uuid4(), open(file_path, "wb").write(contents)
ConcUploadSave ==
  \E c \in AcceptedCases :
    /\ nextId <= MaxDocs
    /\ files' = files \cup {FilePath(nextId, c.file)}
    /\ job' = [job EXCEPT ![nextId] =
                 [NoJob EXCEPT !.pc = "saved", !.file = c.file, !.env = c.env]]
    /\ nextId' = nextId + 1
    /\ UNCHANGED <<index, dels>>

\* except Exception: file_path.unlink() raises FileNotFoundError when the
\* file is gone, and that exception leaves the handler instead of the
\* HTTPException(500).
ConcExcept(d) ==
  /\ files' = files \ {FilePath(d, job[d].file)}
  /\ job' = [job EXCEPT ![d].pc = "done", ![d].status = 500,
                        ![d].unhandled = ~HasFileIn(files, d)]

\* process_document (opens the file), the empty-text check, chunk_text
ConcUploadExtract(d) ==
  /\ job[d].pc = "saved"
  /\ LET j == job[d]
         extracted == process_document(FilePath(d, j.file), j.file.content,
                                       j.env.readable /\ HasFileIn(files, d))
         ch == chunk_text(extracted.text, CHUNK_SIZE, CHUNK_OVERLAP, TRUE)
     IN  IF \/ extracted.raised
            \/ Len(extracted.text) = 0 \/ Len(strip(extracted.text)) = 0
            \/ ch.raised \/ Len(ch.chunks) = 0
         THEN ConcExcept(d)
         ELSE /\ job' = [job EXCEPT ![d].pc = "chunked", ![d].chunks = ch.chunks]
              /\ UNCHANGED files
  /\ UNCHANGED <<index, nextId, dels>>

\* embedding_service.generate_embeddings(chunks)
ConcUploadEmbed(d) ==
  /\ job[d].pc = "chunked"
  /\ LET emb == generate_embeddings(job[d].chunks, job[d].env.embed_ok)
     IN  IF emb.raised
         THEN ConcExcept(d)
         ELSE /\ job' = [job EXCEPT ![d].pc = "embedded", ![d].embeddings = emb.vectors]
              /\ UNCHANGED files
  /\ UNCHANGED <<index, nextId, dels>>

\* vector_store.upsert_chunks(...), then the response
ConcUploadUpsert(d) ==
  /\ job[d].pc = "embedded"
  /\ LET j == job[d]
         up == upsert_chunks(index, d, j.file.filename, j.chunks, j.embeddings,
                             j.env.upsert_fail)
     IN  /\ index' = up.index
         /\ IF up.raised
            THEN ConcExcept(d)
            ELSE /\ job' = [job EXCEPT ![d].pc = "done", ![d].status = 200]
                 /\ UNCHANGED files
  /\ UNCHANGED <<nextId, dels>>

\* for file_path in UPLOAD_DIR.iterdir(): if file_path.stem == file_id
ConcDeleteFind(d) ==
  /\ dels[d].pc \in {"idle", "done"}
  /\ dels' = [dels EXCEPT ![d] =
                IF HasFileIn(files, d)
                THEN [NoDelete EXCEPT !.pc = "found"]
                ELSE [NoDelete EXCEPT !.pc = "done", !.status = 404]]
  /\ UNCHANGED <<files, index, nextId, job>>

\* file_path.unlink(): FileNotFoundError when another handler removed it
ConcDeleteUnlink(d) ==
  /\ dels[d].pc = "found"
  /\ IF HasFileIn(files, d)
     THEN /\ files' = {f \in files : f.id # d}
          /\ dels' = [dels EXCEPT ![d].pc = "unlinked"]
     ELSE /\ dels' = [dels EXCEPT ![d].pc = "done", ![d].status = 500,
                                  ![d].unhandled = TRUE]
          /\ UNCHANGED files
  /\ UNCHANGED <<index, nextId, job>>

\* vector_store.delete_by_file_id(file_id), then the response
ConcDeleteIndex(d) ==
  /\ dels[d].pc = "unlinked"
  /\ index' = delete_by_file_id(index, d, TRUE).index
  /\ dels' = [dels EXCEPT ![d].pc = "done", ![d].status = 200]
  /\ UNCHANGED <<files, nextId, job>>

ConcIdle == UNCHANGED <<produced, last, u_in, u_out>> /\ ChunkIdle

NextConc ==
  \/ ConcUploadSave /\ ConcIdle
  \/ \E d \in FileIds : ConcUploadExtract(d) /\ ConcIdle
  \/ \E d \in FileIds : ConcUploadEmbed(d) /\ ConcIdle
  \/ \E d \in FileIds : ConcUploadUpsert(d) /\ ConcIdle
  \/ \E d \in FileIds : ConcDeleteFind(d) /\ ConcIdle
  \/ \E d \in FileIds : ConcDeleteUnlink(d) /\ ConcIdle
  \/ \E d \in FileIds : ConcDeleteIndex(d) /\ ConcIdle

SpecConc == Init /\ [][NextConc]_vars

----------------------------------------------------------------------------
\* Properties

HasFile(d) == \E f \in files : f.id = d
EntriesOf(ix, d) == {e \in ix : e.metadata.file_id = d}

\* C1: an upload that fails after its file was saved answers 500 and its file
\* is no longer in the upload directory.
UploadFailureRemovesFile ==
  (last.op = "upload" /\ last.calls.save = 1 /\ last.status # 200) =>
    /\ last.status = 500
    /\ ~HasFile(last.file_id)

\* an upload failed at the vector upsert, after extraction, chunking and embedding
UploadFailedAtUpsert ==
  /\ last.op = "upload" /\ last.status = 500
  /\ last.calls.save = 1 /\ last.calls.embed = 1 /\ last.calls.upsert = 1

\* C2 (as claimed): for every document the number of index entries carrying
\* its id is the number of chunks produced for it while its file is persisted,
\* and zero when the file is not persisted.
NoOrphanEntries ==
  \A d \in FileIds :
    Cardinality(EntriesOf(index, d)) = IF HasFile(d) THEN produced[d] ELSE 0

\* C3 (as claimed): a delete that reports success removes the file of D and
\* exactly the entries of D, and nothing else.
DeleteRemovesExactlyD ==
  [][ (last'.op = "delete" /\ last'.status = 200) =>
        /\ files' = {f \in files : f.id # last'.req.file_id}
        /\ index' = {e \in index : e.metadata.file_id # last'.req.file_id}
        /\ ~(\E f \in files' : f.id = last'.req.file_id)
        /\ EntriesOf(index', last'.req.file_id) = {} ]_vars

\* C4: an upload whose extension is not allowed answers 400, one that is too
\* large answers 413, and either leaves the upload directory and the index as
\* they were, with no extraction, embedding or upsert call.
RejectedUploadWritesNothing ==
  [][ (/\ last'.op = "upload"
       /\ \/ lower(suffix(last'.req.filename)) \notin ALLOWED_EXTENSIONS
          \/ last'.req.size > MAX_FILE_SIZE_MB * BYTES_PER_MB) =>
        /\ last'.status =
             IF lower(suffix(last'.req.filename)) \notin ALLOWED_EXTENSIONS
             THEN 400 ELSE 413
        /\ files' = files
        /\ index' = index
        /\ last'.calls = NoCalls ]_vars

\* an oversized upload was rejected while documents are stored
OversizedRejected ==
  last.op = "upload" /\ last.status = 413 /\ files # {} /\ index # {}

\* C5: a chat whose search returned no match answers the fixed reply with no
\* sources and does not call the LLM.
NoMatchesFallback ==
  (last.op = "chat" /\ last.num_matches = 0) =>
    /\ last.status = 200
    /\ last.reply = NO_INFO
    /\ last.sources = <<>>
    /\ last.num_sources = 0
    /\ last.calls.llm = 0

\* a search with a positive top_k over a non-empty index came back empty
EmptySearchOnFilledIndex ==
  /\ last.op = "chat" /\ last.num_matches = 0 /\ index # {}
  /\ Len(last.calls.search) = 1 /\ last.req.top_k > 0

\* C6 (as claimed): a chat whose top_k is not positive is rejected and makes
\* no search call; every search call carries a positive top_k.
TopKPositiveAtSearch ==
  last.op = "chat" =>
    /\ \A i \in 1..Len(last.calls.search) : last.calls.search[i].top_k > 0
    /\ last.req.top_k <= 0 => (last.status # 200 /\ last.calls.search = <<>>)

\* C7 (as claimed): when file_ids is given, every source belongs to a
\* document of the given list, the empty list included.
SourcesWithinFilter ==
  (last.op = "chat" /\ last.req.file_ids.some) =>
    \A i \in 1..Len(last.sources) :
      last.sources[i].file_id \in Range(last.req.file_ids.ids)

\* C8: a chat whose message is empty or whitespace-only answers 400 and calls
\* no gateway.
BlankMessageRejected ==
  (last.op = "chat" /\ Len(strip(last.req.message)) = 0) =>
    /\ last.status = 400
    /\ last.calls = NoCalls

\* a whitespace-only message was rejected while documents are indexed
WhitespaceMessageRejected ==
  /\ last.op = "chat" /\ last.status = 400
  /\ Len(last.req.message) > 0 /\ Len(strip(last.req.message)) = 0
  /\ index # {}

\* C9: a delete for an id with no persisted file answers 404, removes no file
\* and issues no delete to the index.
DeleteUnknownChangesNothing ==
  [][ (last'.op = "delete" /\ ~HasFile(last'.req.file_id)) =>
        /\ last'.status = 404
        /\ files' = files
        /\ index' = index
        /\ last'.calls = NoCalls ]_vars

\* a delete answered 404 while other files and entries exist
DeleteAnswered404 ==
  last.op = "delete" /\ last.status = 404 /\ files # {} /\ index # {}

\* C10: chunk_text returns no chunk whose trimmed length is below
\* MIN_CHUNK_LEN, and for an empty or whitespace-only text it returns the
\* empty sequence without raising.
ChunkTextMinLength ==
  c_out.done =>
    /\ \A i \in 1..Len(c_out.chunks) : Len(strip(c_out.chunks[i])) >= MIN_CHUNK_LEN
    /\ Len(strip(c_text)) = 0 => (~c_out.raised /\ c_out.chunks = <<>>)

\* chunk_text kept some pieces of the split and dropped others
ChunkTextDroppedSome ==
  /\ c_out.done /\ ~c_out.raised
  /\ Len(c_out.chunks) >= 1
  /\ ~splitter_raises(c_size, c_overlap)
  /\ Len(c_out.chunks) < Len(split_text(c_text, c_size, c_overlap, c_strip))

RECURSIVE Flatten(_)
Flatten(bs) == IF bs = <<>> THEN <<>> ELSE Head(bs) \o Flatten(Tail(bs))

\* C11: upsert_chunks with n chunks and n embeddings sends batches of 1 to
\* batch_size entries whose concatenation is entries 0, 1, 2, ... in chunk
\* order, each under the id <<file_id, index>>; when no batch fails all n are
\* sent, stored, and n is returned; with lists of different lengths it raises
\* and sends nothing.
UpsertBatching ==
  u_out.done =>
    LET n == u_in.n_chunks
        sent == Flatten(u_out.batches)
    IN  IF u_in.n_chunks # u_in.n_embeddings
        THEN u_out.raised /\ u_out.calls = 0 /\ u_out.batches = <<>> /\ u_out.index = {}
        ELSE /\ \A b \in 1..Len(u_out.batches) :
                  /\ Len(u_out.batches[b]) >= 1
                  /\ Len(u_out.batches[b]) <= batch_size
             /\ Len(sent) <= n
             /\ \A i \in 1..Len(sent) :
                  /\ sent[i].id = <<u_in.file_id, i - 1>>
                  /\ sent[i].metadata.chunk_index = i - 1
                  /\ sent[i].metadata.file_id = u_in.file_id
             /\ u_out.index = Range(sent)
             /\ u_out.total = Len(sent)
             /\ u_out.raised <=> (u_in.fail_at >= 1 /\ (u_in.fail_at - 1) * batch_size < n)
             /\ ~u_out.raised => (Len(sent) = n /\ u_out.total = n)

\* a call that needed several batches, the last one not full, and returned n
UpsertSeveralBatches ==
  /\ u_out.done /\ ~u_out.raised
  /\ Len(u_out.batches) >= 2
  /\ u_in.n_chunks % batch_size # 0
  /\ u_out.total = u_in.n_chunks

\* no upload and no delete is in progress
ConcAtRest ==
  \A d \in FileIds : job[d].pc \in {"idle", "done"} /\ dels[d].pc \in {"idle", "done"}

\* C12 (as claimed): with uploads and deletes interleaved, once every request
\* has ended no document has index entries while its file is absent.
ConcNoOrphans ==
  ConcAtRest => \A d \in FileIds : EntriesOf(index, d) # {} => HasFile(d)

\* C12, second half (as claimed): no request ends in an unhandled error.
ConcNoUnhandledError ==
  \A d \in FileIds : ~job[d].unhandled /\ ~dels[d].unhandled

====
